---- MODULE Spec2Model ----
(***************************************************************************)
(* SmartGallery (src/unnamed/part_001): justified, masonry and grid layout *)
(* engines, item ingestion, and the virtualised render set.                *)
(*                                                                         *)
(* JavaScript numbers are modelled as exact extended rationals [n, d]:     *)
(* d > 0 is the finite value n/d in lowest terms, <<1,0>> is +Infinity,    *)
(* <<-1,0>> is -Infinity and <<0,0>> is NaN.  Rounding of IEEE doubles and *)
(* the sign of zero are not modelled.  Indices are 0-based as in the       *)
(* source; sequence position k+1 holds the element of index k.             *)
(***************************************************************************)
EXTENDS Integers, Sequences, FiniteSets, TLC

VARIABLES options, containerWidth, scrollY, items, geometry, containerHeight,
          renderedIndices, dom, isResizing, inThrottle, pendingFrames,
          result, call, seen

vars == <<options, containerWidth, scrollY, items, geometry, containerHeight,
          renderedIndices, dom, isResizing, inThrottle, pendingFrames,
          result, call, seen>>

----------------------------------------------------------------------------
(* JavaScript Number arithmetic *)

AbsInt(x) == IF x < 0 THEN -x ELSE x

SignInt(x) == IF x < 0 THEN -1 ELSE IF x > 0 THEN 1 ELSE 0

RECURSIVE Gcd(_, _)
Gcd(a, b) == IF b = 0 THEN a ELSE Gcd(b, a % b)

NaN == [n |-> 0, d |-> 0]

PosInf == [n |-> 1, d |-> 0]

NegInf == [n |-> -1, d |-> 0]

\* the finite number n/d (d # 0), in lowest terms with a positive denominator
Frac(n, d) ==
    LET g == Gcd(AbsInt(n), AbsInt(d))
        s == IF d < 0 THEN -1 ELSE 1
    IN  [n |-> s * (n \div g), d |-> s * (d \div g)]

Num(k) == [n |-> k, d |-> 1]

Zero == Num(0)

IsNaN(a) == a.d = 0 /\ a.n = 0

IsInteger(a) == a.d = 1

\* +Infinity, -Infinity or NaN of the given sign
Inf(s) == [n |-> s, d |-> 0]

NumAdd(a, b) ==
    IF IsNaN(a) \/ IsNaN(b) THEN NaN
    ELSE IF a.d = 0 /\ b.d = 0 THEN (IF a.n = b.n THEN a ELSE NaN)
    ELSE IF a.d = 0 THEN a
    ELSE IF b.d = 0 THEN b
    ELSE Frac(a.n * b.d + b.n * a.d, a.d * b.d)

NumNeg(a) == [n |-> -a.n, d |-> a.d]

NumSub(a, b) == NumAdd(a, NumNeg(b))

NumMul(a, b) ==
    IF IsNaN(a) \/ IsNaN(b) THEN NaN
    ELSE IF a.d = 0 \/ b.d = 0 THEN Inf(SignInt(a.n) * SignInt(b.n))
    ELSE Frac(a.n * b.n, a.d * b.d)

NumDiv(a, b) ==
    IF IsNaN(a) \/ IsNaN(b) THEN NaN
    ELSE IF b.d = 0 THEN (IF a.d = 0 THEN NaN ELSE Zero)
    ELSE IF a.d = 0 THEN Inf(a.n * (IF b.n < 0 THEN -1 ELSE 1))
    ELSE IF b.n = 0 THEN Inf(SignInt(a.n))
    ELSE Frac(a.n * b.d, a.d * b.n)

\* a < b; every comparison with NaN is false
NumLt(a, b) ==
    IF IsNaN(a) \/ IsNaN(b) THEN FALSE
    ELSE IF a.d = 0 /\ b.d = 0 THEN a.n < b.n
    ELSE a.n * b.d < b.n * a.d

NumGt(a, b) == NumLt(b, a)

\* a === b
NumEq(a, b) == ~IsNaN(a) /\ ~IsNaN(b) /\ a = b

NumAbs(a) == [n |-> AbsInt(a.n), d |-> a.d]

NumFloor(a) == IF a.d = 0 THEN a ELSE Num(a.n \div a.d)

NumCeil(a) == IF a.d = 0 THEN a ELSE Num(-((-a.n) \div a.d))

\* Math.max(a, b) and Math.min(a, b)
NumMax(a, b) == IF IsNaN(a) \/ IsNaN(b) THEN NaN ELSE IF NumLt(a, b) THEN b ELSE a

NumMin(a, b) == IF IsNaN(a) \/ IsNaN(b) THEN NaN ELSE IF NumLt(b, a) THEN b ELSE a

\* i % c for an integer i >= 0
NumMod(i, c) ==
    IF IsNaN(c) \/ c = Zero THEN NaN
    ELSE IF c.d = 0 THEN Num(i)
    ELSE Num(i % AbsInt(c.n))

\* the value is truthy: not NaN (or undefined) and not 0
Truthy(a) == ~IsNaN(a) /\ a # Zero

----------------------------------------------------------------------------
(* Layout engines *)

Half == Frac(1, 2)

\* items.map(item => item.aspectRatio)
AspectRatios(its) == [k \in 1..Len(its) |-> its[k].aspectRatio]

Box(left, top, width, height) ==
    [left |-> left, top |-> top, width |-> width, height |-> height]

\* mutant of ScanRow: score <= minScore in place of score < minScore
RECURSIVE ScanRowLastMin(_, _, _, _, _, _, _, _, _)
ScanRowLastMin(ar, W, gap, T, i, j, currentAspect, bestBreakIndex, minScore) ==
    IF j >= Len(ar) THEN bestBreakIndex
    ELSE
      LET cur == NumAdd(currentAspect, ar[j + 1])
          rowHeight == NumDiv(NumSub(W, NumMul(Num(j - i), gap)), cur)
          score == NumAbs(NumSub(rowHeight, T))
      IN  IF NumLt(rowHeight, NumMul(T, Half)) THEN bestBreakIndex
          ELSE IF ~NumGt(score, minScore)
               THEN ScanRowLastMin(ar, W, gap, T, i, j + 1, cur, j, score)
               ELSE ScanRowLastMin(ar, W, gap, T, i, j + 1, cur, bestBreakIndex, minScore)

\* The inner scan of the justified engine from row start i: j is the next
\* index to try, currentAspect the sum over i..j-1, bestBreakIndex the best
\* break so far (-1 for none) and minScore its score.  Returns bestBreakIndex.
RECURSIVE ScanRow(_, _, _, _, _, _, _, _, _)
ScanRow(ar, W, gap, T, i, j, currentAspect, bestBreakIndex, minScore) ==
    IF j >= Len(ar) THEN bestBreakIndex
    ELSE
      LET cur == NumAdd(currentAspect, ar[j + 1])
          count == j - i + 1
          totalGap == NumMul(Num(count - 1), gap)
          availableWidth == NumSub(W, totalGap)
          rowHeight == NumDiv(availableWidth, cur)
          score == NumAbs(NumSub(rowHeight, T))
      IN  IF NumLt(rowHeight, NumMul(T, Half)) THEN bestBreakIndex
          ELSE IF NumLt(score, minScore)
               THEN ScanRow(ar, W, gap, T, i, j + 1, cur, j, score)
               ELSE ScanRow(ar, W, gap, T, i, j + 1, cur, bestBreakIndex, minScore)

\* sum of ar over the indices i..k
RECURSIVE SumAspect(_, _, _)
SumAspect(ar, i, k) ==
    IF k < i THEN Zero ELSE NumAdd(SumAspect(ar, i, k - 1), ar[k + 1])

\* the boxes of the indices k..last of one row, the first of them at left
RECURSIVE RowBoxes(_, _, _, _, _, _, _)
RowBoxes(ar, k, last, left, top, h, gap) ==
    IF k > last THEN <<>>
    ELSE LET w == NumMul(h, ar[k + 1])
         IN  <<Box(left, top, w, h)>>
               \o RowBoxes(ar, k + 1, last, NumAdd(NumAdd(left, w), gap), top, h, gap)

\* mutant of IsLastRow: <= in place of ===
IsLastRowLoose(bestBreakIndex, n) == bestBreakIndex <= n - 1

\* const isLastRow = bestBreakIndex === items.length - 1
IsLastRow(bestBreakIndex, n) == bestBreakIndex = n - 1

\* The outer loop of the justified engine from row start i.
RECURSIVE JustifiedRows(_, _, _, _, _, _, _, _)
JustifiedRows(ar, W, gap, T, lastRowBehavior, i, top, boxes) ==
    IF i >= Len(ar) THEN [boxes |-> boxes, containerHeight |-> top, threw |-> FALSE]
    ELSE
      LET bestBreakIndex == ScanRow(ar, W, gap, T, i, i, Zero, -1, PosInf)
      IN
      IF bestBreakIndex # -1
      THEN
        LET isLastRow == IsLastRow(bestBreakIndex, Len(ar))
            finalRowItemsCount == bestBreakIndex - i + 1
            finalAspect == SumAspect(ar, i, bestBreakIndex)
            totalGap == NumMul(Num(finalRowItemsCount - 1), gap)
            stretched == NumDiv(NumSub(W, totalGap), finalAspect)
            aligned == isLastRow /\ lastRowBehavior \in {"left", "center", "right"}
            finalRowHeight == IF aligned THEN T ELSE stretched
            usedWidth == NumAdd(NumMul(finalAspect, finalRowHeight), totalGap)
            remainingSpace == NumSub(W, usedWidth)
            offsetX ==
                IF aligned /\ lastRowBehavior = "center"
                THEN NumMax(Zero, NumDiv(remainingSpace, Num(2)))
                ELSE IF aligned /\ lastRowBehavior = "right"
                THEN NumMax(Zero, remainingSpace)
                ELSE Zero
        IN  IF isLastRow /\ lastRowBehavior = "hide"
            THEN [boxes |-> boxes, containerHeight |-> top, threw |-> FALSE]
            ELSE JustifiedRows(ar, W, gap, T, lastRowBehavior, bestBreakIndex + 1,
                     NumAdd(NumAdd(top, finalRowHeight), gap),
                     boxes \o RowBoxes(ar, i, bestBreakIndex, offsetX, top,
                                       finalRowHeight, gap))
      ELSE
        JustifiedRows(ar, W, gap, T, lastRowBehavior, i + 1,
            NumAdd(NumAdd(top, T), gap),
            Append(boxes, Box(Zero, top, NumMul(T, ar[i + 1]), T)))

_computeJustifiedLayout(its, W, opts) ==
    JustifiedRows(AspectRatios(its), W, Num(opts.gap), Num(opts.targetRowHeight),
                  opts.lastRowBehavior, 0, Zero, <<>>)

\* column count and column width of the masonry and grid engines
ResolveColumns(W, opts) ==
    LET gap == Num(opts.gap)
        width(colCount) ==
            NumDiv(NumSub(W, NumMul(NumSub(colCount, Num(1)), gap)), colCount)
        auto == NumMax(Num(1),
                   NumFloor(NumDiv(NumAdd(W, gap),
                                   NumAdd(Num(opts.columnWidth), gap))))
        colCount == IF opts.columns.auto THEN auto ELSE Num(opts.columns.count)
    IN  [colCount |-> colCount, colW |-> width(colCount)]

\* Math.min(...colHeights): +Infinity for no argument, NaN when one is NaN
MinOf(hs) ==
    IF hs = <<>> THEN PosInf
    ELSE IF \E c \in 1..Len(hs) : IsNaN(hs[c]) THEN NaN
    ELSE LET c == CHOOSE m \in 1..Len(hs) : \A o \in 1..Len(hs) : ~NumLt(hs[o], hs[m])
         IN  hs[c]

\* Math.max(...colHeights): -Infinity for no argument, NaN when one is NaN
MaxOf(hs) ==
    IF hs = <<>> THEN NegInf
    ELSE IF \E c \in 1..Len(hs) : IsNaN(hs[c]) THEN NaN
    ELSE LET c == CHOOSE m \in 1..Len(hs) : \A o \in 1..Len(hs) : ~NumLt(hs[m], hs[o])
         IN  hs[c]

\* mutant of IndexOf: lastIndexOf
LastIndexOf(hs, v) ==
    IF \E c \in 1..Len(hs) : NumEq(hs[c], v)
    THEN (CHOOSE c \in 1..Len(hs) :
              NumEq(hs[c], v) /\ \A b \in (c + 1)..Len(hs) : ~NumEq(hs[b], v)) - 1
    ELSE -1

\* colHeights.indexOf(v): the first index holding v, -1 when there is none
IndexOf(hs, v) ==
    IF \E c \in 1..Len(hs) : NumEq(hs[c], v)
    THEN (CHOOSE c \in 1..Len(hs) :
              NumEq(hs[c], v) /\ \A b \in 1..(c - 1) : ~NumEq(hs[b], v)) - 1
    ELSE -1

\* the items.forEach of the masonry engine from item index k
RECURSIVE MasonryPlace(_, _, _, _, _, _)
MasonryPlace(ar, k, colW, gap, colHeights, boxes) ==
    IF k >= Len(ar)
    THEN [boxes |-> boxes, containerHeight |-> MaxOf(colHeights), threw |-> FALSE]
    ELSE
      LET minH == MinOf(colHeights)
          colIndex == IndexOf(colHeights, minH)
          h == NumDiv(colW, ar[k + 1])
          box == Box(NumMul(Num(colIndex), NumAdd(colW, gap)), minH, colW, h)
          heights == IF colIndex = -1 THEN colHeights
                     ELSE [colHeights EXCEPT
                              ![colIndex + 1] = NumAdd(@, NumAdd(h, gap))]
      IN  MasonryPlace(ar, k + 1, colW, gap, heights, Append(boxes, box))

\* new Array(colCount) raises a RangeError unless colCount is an integer >= 0
ArrayLengthOk(colCount) == IsInteger(colCount) /\ colCount.n >= 0

_computeMasonryLayout(its, W, opts) ==
    LET cols == ResolveColumns(W, opts)
    IN  IF ~ArrayLengthOk(cols.colCount)
        THEN [boxes |-> <<>>, containerHeight |-> Zero, threw |-> TRUE]
        ELSE MasonryPlace(AspectRatios(its), 0, cols.colW, Num(opts.gap),
                          [c \in 1..cols.colCount.n |-> Zero], <<>>)

GridBox(i, colCount, colW, gap) ==
    LET itemH == colW
        colIndex == NumMod(i, colCount)
        rowIndex == NumFloor(NumDiv(Num(i), colCount))
    IN  Box(NumMul(colIndex, NumAdd(colW, gap)),
            NumMul(rowIndex, NumAdd(itemH, gap)), colW, itemH)

_computeGridLayout(its, W, opts) ==
    LET cols == ResolveColumns(W, opts)
        gap == Num(opts.gap)
        itemH == cols.colW
        rows == NumCeil(NumDiv(Num(Len(its)), cols.colCount))
    IN  [boxes |-> [k \in 1..Len(its) |-> GridBox(k - 1, cols.colCount, cols.colW, gap)],
         containerHeight |-> NumSub(NumMul(rows, NumAdd(itemH, gap)), gap),
         threw |-> FALSE]

\* the engine selected by options.layout
ComputeLayout(its, W, opts) ==
    IF opts.layout = "justified" THEN _computeJustifiedLayout(its, W, opts)
    ELSE IF opts.layout = "masonry" THEN _computeMasonryLayout(its, W, opts)
    ELSE _computeGridLayout(its, W, opts)

----------------------------------------------------------------------------
(* Inputs and bounds *)

\* this.container.clientWidth
ClientWidth == Num(containerWidth)

MaxItems == 2

MaxBatch == 2

MaxEngineItems == 4

MaxFrames == 1

DefaultTargetRowHeight == 300

DefaultColumnWidth == 300

ViewportHeight == 370

ContainerTop == 100

Widths == {620, 900}

ScrollYs == {0, 450}

Gaps == {0, 20}

LastRowBehaviors == {"left", "center", "right", "fill", "hide"}

Auto == [auto |-> TRUE, count |-> 0]

Columns(c) == [auto |-> FALSE, count |-> c]

\* Object.assign(defaults, options) for the options the layout and the
\* visibility code read
Options(layout, gap, T, behavior, columnWidth, columns, virtualize, buffer) ==
    [layout |-> layout, gap |-> gap, targetRowHeight |-> T,
     lastRowBehavior |-> behavior, columnWidth |-> columnWidth,
     columns |-> columns, virtualize |-> virtualize, buffer |-> buffer]

\* an item as the caller passes it; an absent field is NaN (undefined is
\* falsy and converts to NaN)
RawItem(aspectRatio, width, height) ==
    [aspectRatio |-> aspectRatio, width |-> width, height |-> height]

\* all sequences over S of length lo..hi
SeqsOf(S, lo, hi) == UNION {[1..n -> S] : n \in lo..hi}

----------------------------------------------------------------------------
(* Ingestion *)

\* the callback of items.map in addItems
NormalizeItem(item) ==
    LET derived == IF ~Truthy(item.aspectRatio) /\ Truthy(item.width) /\ Truthy(item.height)
                   THEN NumDiv(item.width, item.height)
                   ELSE item.aspectRatio
        aspectRatio == IF ~Truthy(derived) THEN Num(1) ELSE derived
    IN  [item EXCEPT !.aspectRatio = aspectRatio]

----------------------------------------------------------------------------
(* Visibility and the render set *)

\* mutant of WithIndex: itemIndex counted from 1
WithIndexFromOne(boxes) ==
    [k \in 1..Len(boxes) |->
        [left |-> boxes[k].left, top |-> boxes[k].top, width |-> boxes[k].width,
         height |-> boxes[k].height, itemIndex |-> k]]

\* this.geometry = result.boxes.map((box, i) => ({ ...box, itemIndex: i }))
WithIndex(boxes) ==
    [k \in 1..Len(boxes) |->
        [left |-> boxes[k].left, top |-> boxes[k].top, width |-> boxes[k].width,
         height |-> boxes[k].height, itemIndex |-> k - 1]]

StartY(y, buffer) ==
    NumMax(Zero, NumSub(NumSub(Num(y), Num(ContainerTop)), Num(buffer)))

EndY(y, buffer) ==
    NumAdd(NumAdd(NumSub(Num(y), Num(ContainerTop)), Num(ViewportHeight)), Num(buffer))

\* mutant of InRange: >= and <= in place of > and <
InRangeClosed(box, y, buffer) ==
    /\ ~NumLt(NumAdd(box.top, box.height), StartY(y, buffer))
    /\ ~NumGt(box.top, EndY(y, buffer))

\* the test of the geometry.forEach in _updateVisibleItems
InRange(box, y, buffer) ==
    /\ NumGt(NumAdd(box.top, box.height), StartY(y, buffer))
    /\ NumLt(box.top, EndY(y, buffer))

IndicesToRender(geom, y, buffer) ==
    {geom[k].itemIndex : k \in {p \in 1..Len(geom) : InRange(geom[p], y, buffer)}}

\* the element _mountItem appends for a box
Element(box) ==
    [id |-> box.itemIndex, left |-> box.left, top |-> box.top,
     width |-> box.width, height |-> box.height]

\* _mountItem for the indices of toMount, in ascending order, from index k on
RECURSIVE MountAll(_, _, _, _)
MountAll(d, geom, toMount, k) ==
    IF k >= Len(geom) THEN d
    ELSE MountAll(IF k \in toMount THEN Append(d, Element(geom[k + 1])) ELSE d,
                  geom, toMount, k + 1)

\* _unmountItem: remove the first element whose id is index, if there is one
_unmountItem(d, index) ==
    IF \E p \in 1..Len(d) : d[p].id = index
    THEN LET p == CHOOSE q \in 1..Len(d) :
                     d[q].id = index /\ \A r \in 1..(q - 1) : d[r].id # index
         IN  SubSeq(d, 1, p - 1) \o SubSeq(d, p + 1, Len(d))
    ELSE d

RECURSIVE UnmountAll(_, _)
UnmountAll(d, toUnmount) ==
    IF toUnmount = {} THEN d
    ELSE LET index == CHOOSE x \in toUnmount : TRUE
         IN  UnmountAll(_unmountItem(d, index), toUnmount \ {index})

\* mutant of ClearRendered: the set is kept
KeepRendered(rendered) == rendered

\* this.renderedIndices.clear()
ClearRendered(rendered) == {}

\* mutant of ClearContainer: the elements are kept
KeepContainer(d) == d

\* this.container.innerHTML = ''
ClearContainer(d) == <<>>

\* the indices the first loop of the diff mounts
MountList(rendered, indicesToRender) == indicesToRender \ rendered

\* the indices the second loop of the diff unmounts, given the rendered set
\* the first loop left
UnmountList(rendered, indicesToRender) == rendered \ indicesToRender

\* _updateVisibleItems with virtualization on
_updateVisibleItems(geom, rendered, d, y, buffer) ==
    LET indicesToRender == IndicesToRender(geom, y, buffer)
        mounted == MountList(rendered, indicesToRender)
        afterMount == rendered \cup mounted
        unmounted == UnmountList(afterMount, indicesToRender)
    IN  [renderedIndices |-> afterMount \ unmounted,
         dom |-> UnmountAll(MountAll(d, geom, mounted, 0), unmounted),
         mounted |-> mounted, unmounted |-> unmounted]

----------------------------------------------------------------------------
(* Input sets *)

Absent == NaN

\* the items the gallery is fed in the interactive specification
RawItems ==
    { RawItem(Absent, Absent, Absent),
      RawItem(Absent, Num(5), Num(1)),
      RawItem(Num(-1), Absent, Absent) }

\* the items the ingestion specification feeds
AllRawItems ==
    RawItems \cup
    { RawItem(Num(2), Absent, Absent),
      RawItem(Num(2), Num(3), Num(2)),
      RawItem(Absent, Num(3), Num(2)),
      RawItem(Zero, Num(3), Num(2)),
      RawItem(Absent, Num(-3), Num(2)),
      RawItem(Absent, Num(3), Absent),
      RawItem(Zero, Absent, Absent) }

ColumnChoices == {Auto, Columns(2)}

\* configurations that satisfy the documented ranges
LayoutOptions(gaps, virtualize) ==
    {Options("justified", g, DefaultTargetRowHeight, b, DefaultColumnWidth, Auto, v, 50) :
        g \in gaps, b \in LastRowBehaviors, v \in virtualize}
    \cup
    {Options(l, g, DefaultTargetRowHeight, "left", DefaultColumnWidth, c, v, 50) :
        l \in {"masonry", "grid"}, g \in gaps, c \in ColumnChoices, v \in virtualize}

\* configurations outside the documented ranges
BadOptions ==
    {Options("justified", g, T, b, DefaultColumnWidth, Auto, TRUE, 50) :
        g \in {0, 20}, T \in {0, -300}, b \in LastRowBehaviors}
    \cup
    {Options(l, g, DefaultTargetRowHeight, "left", cw, Auto, TRUE, 50) :
        l \in {"masonry", "grid"}, g \in {0, 20}, cw \in {0, -20, -300}}
    \cup
    {Options(l, g, DefaultTargetRowHeight, "left", DefaultColumnWidth, Columns(c), TRUE, 50) :
        l \in {"masonry", "grid"}, g \in {0, 20}, c \in {0, -1}}

IsBadConfig(opts) ==
    \/ opts.layout = "justified" /\ opts.targetRowHeight <= 0
    \/ opts.layout # "justified" /\ opts.columns.auto /\ opts.columnWidth <= 0
    \/ opts.layout # "justified" /\ ~opts.columns.auto /\ opts.columns.count <= 0

----------------------------------------------------------------------------
(* State machine *)

NoResult == [boxes |-> <<>>, containerHeight |-> Zero, threw |-> FALSE]

\* what the last step did: the operation, whether it raised, the indices it
\* mounted and unmounted through the diff, whether its inputs were those of the
\* previous call, and how many elements container.innerHTML = '' dropped
Call(op, threw, mounted, unmounted, redundant, cleared) ==
    [op |-> op, threw |-> threw, mounted |-> mounted, unmounted |-> unmounted,
     redundant |-> redundant, cleared |-> cleared]

\* the state the constructor leaves, for the given options and environment
Constructed(opts, W, its) ==
    /\ options = opts
    /\ containerWidth = W
    /\ scrollY = 0
    /\ items = its
    /\ geometry = <<>>
    /\ containerHeight = Zero
    /\ renderedIndices = {}
    /\ dom = <<>>
    /\ isResizing = FALSE
    /\ inThrottle = FALSE
    /\ pendingFrames = 0
    /\ result = NoResult
    /\ call = Call("new", FALSE, {}, {}, FALSE, 0)
    /\ seen = [n |-> 0, w |-> 0, y |-> -1]

\* the configurations of the interactive specification
GalleryOptions ==
    {Options("justified", 20, DefaultTargetRowHeight, b, DefaultColumnWidth, Auto, v, 50) :
        b \in {"left", "fill", "hide"}, v \in BOOLEAN}
    \cup
    {Options("masonry", 20, DefaultTargetRowHeight, "left", DefaultColumnWidth, Columns(2), v, 50) :
        v \in BOOLEAN}
    \cup
    {Options("grid", 20, DefaultTargetRowHeight, "left", DefaultColumnWidth, Auto, v, 50) :
        v \in BOOLEAN}

Init ==
    \E opts \in GalleryOptions, W \in Widths :
        Constructed(opts, W, <<>>)

\* addItems(batch)
AddItemsOf(batch) ==
    /\ Len(items) + Len(batch) <= MaxItems
    /\ items' = items \o [k \in 1..Len(batch) |-> NormalizeItem(batch[k])]
    /\ call' = Call("idle", FALSE, {}, {}, FALSE, 0)
    /\ UNCHANGED <<options, containerWidth, scrollY, geometry, containerHeight,
                   renderedIndices, dom, isResizing, inThrottle,
                   pendingFrames, result, seen>>

AddItems == \E batch \in SeqsOf(RawItems, 1, MaxBatch) : AddItemsOf(batch)

\* render(): the effect on the gallery's own state
RenderBody(op) ==
    IF Len(items) = 0
    THEN /\ call' = Call(op, FALSE, {}, {}, FALSE, 0)
         /\ UNCHANGED <<geometry, containerHeight, renderedIndices, dom,
                        isResizing, result, seen>>
    ELSE
      \E res \in {ComputeLayout(items, ClientWidth, options)},
         redundant \in {seen = [n |-> Len(items), w |-> containerWidth, y |-> scrollY]} :
      /\ seen' = [n |-> Len(items), w |-> containerWidth, y |-> scrollY]
      /\ IF res.threw
         THEN \* the engine raised: lines 94-103 have run, the rest has not
              /\ geometry' = <<>>
              /\ renderedIndices' = ClearRendered(renderedIndices)
              /\ dom' = ClearContainer(dom)
              /\ isResizing' = TRUE
              /\ call' = Call(op, TRUE, {}, {}, redundant, Len(dom))
              /\ UNCHANGED <<containerHeight, result>>
         ELSE
           /\ result' = res
           /\ geometry' = WithIndex(res.boxes)
           /\ containerHeight' = res.containerHeight
           /\ IF ~options.virtualize
              THEN \* this._renderItems is not defined: the call raises a TypeError
                   /\ renderedIndices' = ClearRendered(renderedIndices)
                   /\ dom' = ClearContainer(dom)
                   /\ isResizing' = TRUE
                   /\ call' = Call(op, TRUE, {}, {}, redundant, Len(dom))
              ELSE
                \E upd \in {_updateVisibleItems(geometry', ClearRendered(renderedIndices),
                                                ClearContainer(dom), scrollY,
                                                options.buffer)} :
                    /\ renderedIndices' = upd.renderedIndices
                    /\ dom' = upd.dom
                    /\ isResizing' = FALSE
                    /\ call' = Call(op, FALSE, upd.mounted, upd.unmounted, redundant, Len(dom))

\* a call of render() by the page
Render ==
    /\ RenderBody("render")
    /\ UNCHANGED <<options, containerWidth, scrollY, items, inThrottle, pendingFrames>>

\* the container takes the width W.  The ResizeObserver callback only arms a
\* 100 ms timer that calls render(); that call is a Render step at a later time.
Resize(W) ==
    /\ W # containerWidth
    /\ containerWidth' = W
    /\ call' = Call("idle", FALSE, {}, {}, FALSE, 0)
    /\ UNCHANGED <<options, scrollY, items, geometry, containerHeight,
                   renderedIndices, dom, isResizing, inThrottle, pendingFrames,
                   result, seen>>

\* a scroll event at offset y: the throttled handler runs when virtualize is on
Scroll(y) ==
    /\ scrollY' = y
    /\ IF options.virtualize /\ ~inThrottle
       THEN /\ inThrottle' = TRUE
            /\ pendingFrames' = IF isResizing THEN pendingFrames ELSE pendingFrames + 1
       ELSE UNCHANGED <<inThrottle, pendingFrames>>
    /\ pendingFrames' <= MaxFrames
    /\ call' = Call("idle", FALSE, {}, {}, FALSE, 0)
    /\ UNCHANGED <<options, containerWidth, items, geometry, containerHeight,
                   renderedIndices, dom, isResizing, result, seen>>

\* the 50 ms timer of _throttle fires
ThrottleTimer ==
    /\ inThrottle
    /\ inThrottle' = FALSE
    /\ call' = Call("idle", FALSE, {}, {}, FALSE, 0)
    /\ UNCHANGED <<options, containerWidth, scrollY, items, geometry,
                   containerHeight, renderedIndices, dom, isResizing,
                   pendingFrames, result, seen>>

\* a requested animation frame runs _updateVisibleItems
AnimationFrame ==
    /\ pendingFrames > 0
    /\ pendingFrames' = pendingFrames - 1
    /\ \E upd \in {_updateVisibleItems(geometry, renderedIndices, dom, scrollY,
                                         options.buffer)} :
           /\ renderedIndices' = upd.renderedIndices
           /\ dom' = upd.dom
           /\ call' = Call("update", FALSE, upd.mounted, upd.unmounted,
                           seen.y = scrollY, 0)
    /\ seen' = [seen EXCEPT !.y = scrollY]
    /\ UNCHANGED <<options, containerWidth, scrollY, items, geometry,
                   containerHeight, isResizing, inThrottle, result>>

Next ==
    \/ AddItems
    \/ Render
    \/ \E W \in Widths : Resize(W)
    \/ \E y \in ScrollYs : Scroll(y)
    \/ ThrottleTimer
    \/ AnimationFrame

Spec == Init /\ [][Next]_vars

----------------------------------------------------------------------------
(* The layout engines called on ingested items *)

EngineRawItems == RawItems \cup {RawItem(Num(2), Absent, Absent)}

EngineItems == {NormalizeItem(r) : r \in EngineRawItems}

\* a direct call of the engine options.layout selects
Compute ==
    \E res \in {ComputeLayout(items, ClientWidth, options)} :
        /\ result' = IF res.threw THEN result ELSE res
        /\ call' = Call("compute", res.threw, {}, {}, FALSE, 0)
        /\ UNCHANGED <<options, containerWidth, scrollY, items, geometry,
                       containerHeight, renderedIndices, dom, isResizing,
                       inThrottle, pendingFrames, seen>>

InitEngine ==
    \E opts \in LayoutOptions(Gaps, {TRUE}), W \in Widths,
       its \in SeqsOf(EngineItems, 0, MaxEngineItems) :
        Constructed(opts, W, its)

NextEngine == Render \/ Compute

SpecEngine == InitEngine /\ [][NextEngine]_vars

InitConfig ==
    \E opts \in BadOptions, W \in Widths, its \in SeqsOf(EngineItems, 0, MaxItems) :
        Constructed(opts, W, its)

SpecConfig == InitConfig /\ [][NextEngine]_vars

\* The justified engine on items of positive aspect ratio, in containers from
\* narrower than one gap to wide
ScanAspects == {1, 4, 5}

ScanItems == {NormalizeItem(RawItem(Num(a), Absent, Absent)) : a \in ScanAspects}

ScanWidths == {10, 900}

InitScan ==
    \E opts \in {Options("justified", g, DefaultTargetRowHeight, b,
                          DefaultColumnWidth, Auto, TRUE, 50) :
                      g \in Gaps, b \in LastRowBehaviors},
       W \in ScanWidths,
       its \in SeqsOf(ScanItems, 0, MaxEngineItems) :
        Constructed(opts, W, its)

SpecScan == InitScan /\ [][NextEngine]_vars

----------------------------------------------------------------------------
(* Ingestion alone *)

AddAnyItems == \E batch \in SeqsOf(AllRawItems, 1, MaxBatch) : AddItemsOf(batch)

SpecIngest == Init /\ [][AddAnyItems]_vars

----------------------------------------------------------------------------
(* Claims about the layout engines and render(), under SpecEngine *)

\* the box belongs to item k: the justified and the masonry engine give it the
\* item's aspect ratio, the grid engine the square cell of column k mod colCount
\* and row k div colCount
BoxFitsItem(box, k) ==
    IF options.layout = "grid"
    THEN LET cols == ResolveColumns(ClientWidth, options)
             pitch == NumAdd(cols.colW, Num(options.gap))
         IN  /\ box.width = box.height
             /\ box.left = NumMul(Num(k % cols.colCount.n), pitch)
             /\ box.top = NumMul(Num(k \div cols.colCount.n), pitch)
    ELSE box.width = NumMul(box.height, items[k + 1].aspectRatio)

\* C1: after render() of a non-empty item list with lastRowBehavior other than
\* 'hide', geometry has one entry per item, and the entry at position k
\* carries itemIndex k and is the box of item k
C1_Coverage ==
    (call.op = "render" /\ Len(items) > 0 /\ options.lastRowBehavior # "hide") =>
        /\ Len(geometry) = Len(items)
        /\ \A k \in 1..Len(geometry) :
              /\ geometry[k].itemIndex = k - 1
              /\ BoxFitsItem(geometry[k], k - 1)

C1_Witness ==
    /\ call.op = "render"
    /\ options.layout = "justified"
    /\ options.lastRowBehavior = "center"
    /\ Len(items) = 4
    /\ Len(geometry) = 4
    /\ NumGt(geometry[4].top, geometry[1].top)
    /\ NumGt(geometry[4].left, Zero)

\* C7: every engine maps the empty item list to no boxes and containerHeight 0
C7_EmptyLayout ==
    (call.op = "compute" /\ items = <<>>) =>
        /\ ~call.threw
        /\ result.boxes = <<>>
        /\ result.containerHeight = Zero

\* the justified layout of the same items with lastRowBehavior 'fill'
FillLayout ==
    _computeJustifiedLayout(items, ClientWidth, [options EXCEPT !.lastRowBehavior = "fill"])

\* the positions in the layout fill of the row that holds the last item
LastRowOf(fill) ==
    {k \in 1..Len(items) : fill.boxes[k].top = fill.boxes[Len(items)].top}

LastRow == LastRowOf(FillLayout)

HideCall ==
    /\ call.op = "compute"
    /\ options.layout = "justified"
    /\ options.lastRowBehavior = "hide"
    /\ Len(items) > 0

\* the rows before the last one are laid out as without 'hide', the last row
\* has no box and its height is not in containerHeight
LastRowDiscardedOf(fill) ==
    /\ Len(result.boxes) = Len(items) - Cardinality(LastRowOf(fill))
    /\ \A k \in 1..Len(result.boxes) : result.boxes[k] = fill.boxes[k]
    /\ result.containerHeight = fill.boxes[Len(items)].top

\* the break search that starts at the first item of the row lastRow finds no
\* break: the row is a forced single-item row
ForcedRow(lastRow) ==
    LET start == (CHOOSE k \in lastRow : \A m \in lastRow : k <= m) - 1
    IN  ScanRow(AspectRatios(items), ClientWidth, Num(options.gap),
                Num(options.targetRowHeight), start, start, Zero, -1, PosInf) = -1

LastRowForced == ForcedRow(LastRow)

\* C9 as claimed: with 'hide' the row that holds the last item is discarded
C9_HideDiscardsLastRow ==
    HideCall => \E fill \in {FillLayout} : LastRowDiscardedOf(fill)

\* C9 as amended: with 'hide' the row that holds the last item is discarded,
\* unless it is a forced single-item row, which is emitted at targetRowHeight
\* as without 'hide'
C9_HideUnlessForced ==
    HideCall =>
        \E fill \in {FillLayout} :
            IF ForcedRow(LastRowOf(fill))
            THEN /\ result.boxes = fill.boxes
                 /\ result.containerHeight = fill.containerHeight
                 /\ result.boxes[Len(items)].height = Num(options.targetRowHeight)
                 /\ Cardinality(LastRowOf(fill)) = 1
            ELSE LastRowDiscardedOf(fill)

C9_Witness ==
    /\ HideCall
    /\ ~LastRowForced
    /\ Cardinality(LastRow) = 2
    /\ Len(result.boxes) = 2
    /\ Len(items) = 4

C9_WitnessForced ==
    /\ HideCall
    /\ LastRowForced
    /\ Len(items) = 3
    /\ NumGt(items[3].aspectRatio, Zero)

ScenarioB ==
    /\ call.op = "compute"
    /\ options.layout = "masonry"
    /\ options.columns = Columns(2)
    /\ options.gap = 20
    /\ containerWidth = 620
    /\ Len(items) = 4
    /\ \A k \in 1..4 : items[k].aspectRatio = Num(1)

ScenarioBPlacement ==
    /\ ResolveColumns(ClientWidth, options).colW = Num(300)
    /\ Len(result.boxes) = 4
    /\ result.boxes[1].left = Zero /\ result.boxes[1].top = Zero
    /\ result.boxes[2].left = Num(320) /\ result.boxes[2].top = Zero
    /\ result.boxes[3].left = Zero /\ result.boxes[3].top = Num(320)
    /\ result.boxes[4].left = Num(320) /\ result.boxes[4].top = Num(320)

\* C10 as claimed: scenario B places the items as listed and returns
\* containerHeight 620
C10_ScenarioB620 == ScenarioB => (ScenarioBPlacement /\ result.containerHeight = Num(620))

\* C10 as amended: scenario B places the items as listed and returns
\* containerHeight 640, the trailing gap included
C10_ScenarioB640 == ScenarioB => (ScenarioBPlacement /\ result.containerHeight = Num(640))

C10_Witness == ScenarioB /\ ~call.threw /\ Len(result.boxes) = 4

----------------------------------------------------------------------------
(* Claims about the render set, under Spec *)

\* the visible band, from the scroll offset
BandStart ==
    IF scrollY - ContainerTop - options.buffer > 0
    THEN scrollY - ContainerTop - options.buffer ELSE 0

BandEnd == scrollY - ContainerTop + ViewportHeight + options.buffer

\* the indices whose box is in the band
VisibleIndices ==
    {k \in 0..(Len(geometry) - 1) :
        /\ NumLt(Num(BandStart), NumAdd(geometry[k + 1].top, geometry[k + 1].height))
        /\ NumLt(geometry[k + 1].top, Num(BandEnd))}

\* the last step ran _updateVisibleItems with virtualization on
UpdateRan ==
    /\ options.virtualize
    /\ ~call.threw
    /\ call.op = "update" \/ (call.op = "render" /\ Len(items) > 0)

\* C2: after every run of _updateVisibleItems with virtualization on,
\* renderedIndices is exactly the set of indices whose box is in the band, and
\* no index was both mounted and unmounted by the run
C2_DiffCorrect ==
    UpdateRan =>
        /\ renderedIndices = VisibleIndices
        /\ call.mounted \cap call.unmounted = {}

C2_Witness ==
    /\ UpdateRan
    /\ call.op = "update"
    /\ call.mounted # {}
    /\ call.unmounted # {}
    /\ renderedIndices # {}
    /\ \E k \in 1..Len(geometry) : geometry[k].top = Num(BandEnd)

ElementsOf(d) == {d[p] : p \in 1..Len(d)}

\* C3: in every state the elements of the container are those of
\* renderedIndices, one each, and each is placed at the box the current
\* geometry holds for its index
C3_NoStaleElements ==
    /\ Len(dom) = Cardinality(renderedIndices)
    /\ {dom[p].id : p \in 1..Len(dom)} = renderedIndices
    /\ \A p \in 1..Len(dom) :
          /\ dom[p].id < Len(geometry)
          /\ dom[p] = Element(geometry[dom[p].id + 1])

\* a re-layout that dropped elements of the old geometry and mounted new ones
C3_Witness ==
    /\ call.op = "render"
    /\ call.cleared > 0
    /\ call.mounted # {}
    /\ seen.w = 900
    /\ Len(dom) = 2

\* C4 as claimed: a call with unchanged inputs leaves the LayoutResult as it
\* was and mounts and unmounts no element
C4_RedundantCallNoDiff ==
    [][call'.redundant =>
          /\ result' = result
          /\ geometry' = geometry
          /\ containerHeight' = containerHeight
          /\ call'.mounted = {}
          /\ call'.unmounted = {}
          /\ call'.cleared = 0]_vars

\* C4 as amended: a call with unchanged inputs leaves the LayoutResult,
\* renderedIndices and the set of elements as they were; a redundant
\* visibility recompute mounts and unmounts nothing (a redundant render()
\* empties the container and mounts the visible set again)
C4_RedundantCallSameState ==
    [][call'.redundant =>
          /\ result' = result
          /\ geometry' = geometry
          /\ containerHeight' = containerHeight
          /\ renderedIndices' = renderedIndices
          /\ ElementsOf(dom') = ElementsOf(dom)
          /\ Len(dom') = Len(dom)
          /\ call'.op = "update" => (call'.mounted = {} /\ call'.unmounted = {})]_vars

C4_Witness ==
    /\ call.redundant
    /\ call.op = "render"
    /\ call.cleared > 0
    /\ call.mounted # {}

\* C5: with virtualize off, render() of a non-empty item list raises no error
\* and leaves every index of the layout materialized
C5_RenderAllWithoutVirtualize ==
    (~options.virtualize /\ call.op = "render" /\ Len(items) > 0) =>
        /\ ~call.threw
        /\ {dom[p].id : p \in 1..Len(dom)} = 0..(Len(geometry) - 1)

----------------------------------------------------------------------------
(* Claims about configuration and ingestion *)

\* C6: a layout call under a configuration with a non-positive
\* targetRowHeight, columnWidth or explicit columns raises an error, so that
\* no LayoutResult comes from such a configuration
C6_BadConfigRejected ==
    (IsBadConfig(options) /\ call.op \in {"compute", "render"} /\ Len(items) > 0) =>
        call.threw

\* C8: every stored item has a strictly positive aspectRatio
C8_PositiveAspectRatio ==
    \A k \in 1..Len(items) : NumGt(items[k].aspectRatio, Zero)

----------------------------------------------------------------------------
(* C11: the break search of the justified engine (SpecScan) *)

\* rowHeight of the candidate row i..j, as the scan computes it
CandidateHeight(i, j) ==
    NumDiv(NumSub(ClientWidth, NumMul(Num(j - i), Num(options.gap))),
           SumAspect(AspectRatios(items), i, j))

\* |rowHeight - targetRowHeight| of the candidate row i..j
Deviation(i, j) ==
    NumAbs(NumSub(CandidateHeight(i, j), Num(options.targetRowHeight)))

\* the break index the engine's scan returns for a row starting at i
ChosenBreak(i) ==
    ScanRow(AspectRatios(items), ClientWidth, Num(options.gap),
            Num(options.targetRowHeight), i, i, Zero, -1, PosInf)

TooLow(i, j) ==
    NumLt(CandidateHeight(i, j), NumMul(Num(options.targetRowHeight), Half))

\* the first j from i on whose rowHeight is below half the target, or the
\* length of the list when there is none
StopIndex(i) ==
    LET low == {j \in i..(Len(items) - 1) : TooLow(i, j)}
    IN  IF low = {} THEN Len(items)
        ELSE CHOOSE j \in low : \A o \in low : j <= o

\* b has the least deviation among the candidates i..last, and is the first
\* index that has it
FirstMinimum(i, b, last) ==
    /\ b \in i..last
    /\ \A j \in i..last : ~NumLt(Deviation(i, j), Deviation(i, b))
    /\ \A j \in i..(b - 1) : NumGt(Deviation(i, j), Deviation(i, b))

\* the justified engine has run on the items
ScanRan ==
    /\ options.layout = "justified"
    /\ call.op \in {"compute", "render"}
    /\ ~call.threw

\* C11 as claimed: for every row start i, rowHeight(i..j) is non-increasing in
\* j, and the chosen break index is the first minimum of the deviation over
\* every j from i to the end of the list
C11_EarlyStopLossless ==
    ScanRan =>
        \A i \in 0..(Len(items) - 1) :
            /\ \A j \in i..(Len(items) - 2) :
                   ~NumGt(CandidateHeight(i, j + 1), CandidateHeight(i, j))
            /\ \E b \in {ChosenBreak(i)} :
                   b # -1 => FirstMinimum(i, b, Len(items) - 1)

\* C11 as amended: rowHeight(i..j) is non-increasing in j while the available
\* width stays non-negative; the chosen break index is the first minimum of the
\* deviation over the indices before the stop (none is chosen when the stop is
\* at i); every index from the stop on has a rowHeight below half the target
C11_EarlyStopBounded ==
    ScanRan =>
        \A i \in 0..(Len(items) - 1) :
            /\ \A j \in i..(Len(items) - 2) :
                   ~NumLt(NumSub(ClientWidth, NumMul(Num(j + 1 - i), Num(options.gap))),
                          Zero)
                   => ~NumGt(CandidateHeight(i, j + 1), CandidateHeight(i, j))
            /\ \E b \in {ChosenBreak(i)}, stop \in {StopIndex(i)} :
                   /\ (b = -1) <=> (stop = i)
                   /\ b # -1 => FirstMinimum(i, b, stop - 1)
                   /\ \A j \in stop..(Len(items) - 1) : TooLow(i, j)

\* the scan stopped before the end of the list and left out an index with a
\* strictly smaller deviation than the one it chose
C11_Witness ==
    /\ ScanRan
    /\ \E i \in 0..(Len(items) - 1) :
           \E b \in {ChosenBreak(i)}, stop \in {StopIndex(i)} :
               /\ b # -1
               /\ stop < Len(items)
               /\ \E j \in stop..(Len(items) - 1) :
                      NumLt(Deviation(i, j), Deviation(i, b))

----------------------------------------------------------------------------
(* C12: horizontal extent of the justified boxes (SpecScan) *)

\* C12: every box the justified engine produces lies inside the container
\* horizontally: left >= 0 and left + width <= containerWidth
C12_HorizontalContainment ==
    ScanRan =>
        \A k \in 1..Len(result.boxes) :
            /\ ~NumLt(result.boxes[k].left, Zero)
            /\ ~NumGt(NumAdd(result.boxes[k].left, result.boxes[k].width),
                      ClientWidth)

----------------------------------------------------------------------------
(* C13: the throttled scroll handler (Spec) *)

\* virtualization is on, a layout has been rendered, and neither the 50 ms
\* timer of _throttle nor a requested animation frame is pending
ScrollSettled ==
    /\ options.virtualize
    /\ ~isResizing
    /\ geometry # <<>>
    /\ ~inThrottle
    /\ pendingFrames = 0

\* C13: once no timer and no frame callback is pending, renderedIndices is the
\* visible set of the current scroll position
C13_ScrollSettles ==
    ScrollSettled => renderedIndices = VisibleIndices

====
